---- MODULE Spec2Model ----
(***************************************************************************)
(* Model of icons.go: the icon scraper and enrichment pipeline.            *)
(*                                                                         *)
(* A Go string is modelled as the sequence of the code points of its       *)
(* runes, so that the string conversions of the code (case mapping,        *)
(* replacement, the [^a-z0-9-] filter, splitting, trimming, the byte       *)
(* indexing of cleanDisplayName) are computed rune by rune.  Str turns a   *)
(* literal of printable ASCII into such a sequence.                        *)
(*                                                                         *)
(* The build-time switches of the const block (useLLMEnrichment,           *)
(* useBatchProcessing, batchSize, testingMode, testLimit) are variables    *)
(* fixed in Init, so that every branch of Generate they select is covered; *)
(* the values of the const block are one of the configurations.            *)
(***************************************************************************)
EXTENDS Integers, Sequences, FiniteSets, TLC

(***************************************************************************)
(* Bounds of the model.                                                    *)
(***************************************************************************)
MaxPage == 3
MaxBatchSize == 2
MaxTestLimit == 2
MaxTitleLen == 3

(***************************************************************************)
(* String literals                                                         *)
(***************************************************************************)
\* printable ASCII from 0x20 to 0x7E; the grave accent (0x60) cannot be
\* written in a string literal and has a placeholder
Ascii == <<
    " ", "!", "\"", "#", "$", "%", "&", "'", "(", ")", "*", "+", ",", "-", ".", "/",
    "0", "1", "2", "3", "4", "5", "6", "7", "8", "9", ":", ";", "<", "=", ">", "?",
    "@", "A", "B", "C", "D", "E", "F", "G", "H", "I", "J", "K", "L", "M", "N", "O",
    "P", "Q", "R", "S", "T", "U", "V", "W", "X", "Y", "Z", "[", "\\", "]", "^", "_",
    "<grave>", "a", "b", "c", "d", "e", "f", "g", "h", "i", "j", "k", "l", "m", "n", "o",
    "p", "q", "r", "s", "t", "u", "v", "w", "x", "y", "z", "{", "|", "}", "~" >>

\* the code point of a one-character literal
AsciiCode ==
    [ ch \in { Ascii[k] : k \in DOMAIN Ascii } |->
        31 + (CHOOSE k \in DOMAIN Ascii : Ascii[k] = ch) ]

R(ch) == AsciiCode[ch]

\* the runes of a literal
Str(s) == [ k \in 1..Len(s) |-> R(SubSeq(s, k, k)) ]

(***************************************************************************)
(* package unicode: the simple case mappings of the Unicode Character      *)
(* Database (version 14) outside ASCII, as << first, last, stride, delta >>*)
(***************************************************************************)
toLowerRanges == <<
    << 192, 214, 1, 32 >>, << 216, 222, 1, 32 >>, << 256, 302, 2, 1 >>, << 304, 304, 1, -199 >>,
    << 306, 310, 2, 1 >>, << 313, 327, 2, 1 >>, << 330, 374, 2, 1 >>, << 376, 376, 1, -121 >>,
    << 377, 381, 2, 1 >>, << 385, 385, 1, 210 >>, << 386, 388, 2, 1 >>, << 390, 390, 1, 206 >>,
    << 391, 391, 1, 1 >>, << 393, 394, 1, 205 >>, << 395, 395, 1, 1 >>, << 398, 398, 1, 79 >>,
    << 399, 399, 1, 202 >>, << 400, 400, 1, 203 >>, << 401, 401, 1, 1 >>, << 403, 403, 1, 205 >>,
    << 404, 404, 1, 207 >>, << 406, 406, 1, 211 >>, << 407, 407, 1, 209 >>, << 408, 408, 1, 1 >>,
    << 412, 412, 1, 211 >>, << 413, 413, 1, 213 >>, << 415, 415, 1, 214 >>, << 416, 420, 2, 1 >>,
    << 422, 422, 1, 218 >>, << 423, 423, 1, 1 >>, << 425, 425, 1, 218 >>, << 428, 428, 1, 1 >>,
    << 430, 430, 1, 218 >>, << 431, 431, 1, 1 >>, << 433, 434, 1, 217 >>, << 435, 437, 2, 1 >>,
    << 439, 439, 1, 219 >>, << 440, 440, 1, 1 >>, << 444, 444, 1, 1 >>, << 452, 452, 1, 2 >>,
    << 453, 453, 1, 1 >>, << 455, 455, 1, 2 >>, << 456, 456, 1, 1 >>, << 458, 458, 1, 2 >>,
    << 459, 475, 2, 1 >>, << 478, 494, 2, 1 >>, << 497, 497, 1, 2 >>, << 498, 500, 2, 1 >>,
    << 502, 502, 1, -97 >>, << 503, 503, 1, -56 >>, << 504, 542, 2, 1 >>, << 544, 544, 1, -130 >>,
    << 546, 562, 2, 1 >>, << 570, 570, 1, 10795 >>, << 571, 571, 1, 1 >>, << 573, 573, 1, -163 >>,
    << 574, 574, 1, 10792 >>, << 577, 577, 1, 1 >>, << 579, 579, 1, -195 >>, << 580, 580, 1, 69 >>,
    << 581, 581, 1, 71 >>, << 582, 590, 2, 1 >>, << 880, 882, 2, 1 >>, << 886, 886, 1, 1 >>,
    << 895, 895, 1, 116 >>, << 902, 902, 1, 38 >>, << 904, 906, 1, 37 >>, << 908, 908, 1, 64 >>,
    << 910, 911, 1, 63 >>, << 913, 929, 1, 32 >>, << 931, 939, 1, 32 >>, << 975, 975, 1, 8 >>,
    << 984, 1006, 2, 1 >>, << 1012, 1012, 1, -60 >>, << 1015, 1015, 1, 1 >>, << 1017, 1017, 1, -7 >>,
    << 1018, 1018, 1, 1 >>, << 1021, 1023, 1, -130 >>, << 1024, 1039, 1, 80 >>, << 1040, 1071, 1, 32 >>,
    << 1120, 1152, 2, 1 >>, << 1162, 1214, 2, 1 >>, << 1216, 1216, 1, 15 >>, << 1217, 1229, 2, 1 >>,
    << 1232, 1326, 2, 1 >>, << 1329, 1366, 1, 48 >>, << 4256, 4293, 1, 7264 >>, << 4295, 4295, 1, 7264 >>,
    << 4301, 4301, 1, 7264 >>, << 5024, 5103, 1, 38864 >>, << 5104, 5109, 1, 8 >>, << 7312, 7354, 1, -3008 >>,
    << 7357, 7359, 1, -3008 >>, << 7680, 7828, 2, 1 >>, << 7838, 7838, 1, -7615 >>, << 7840, 7934, 2, 1 >>,
    << 7944, 7951, 1, -8 >>, << 7960, 7965, 1, -8 >>, << 7976, 7983, 1, -8 >>, << 7992, 7999, 1, -8 >>,
    << 8008, 8013, 1, -8 >>, << 8025, 8031, 2, -8 >>, << 8040, 8047, 1, -8 >>, << 8072, 8079, 1, -8 >>,
    << 8088, 8095, 1, -8 >>, << 8104, 8111, 1, -8 >>, << 8120, 8121, 1, -8 >>, << 8122, 8123, 1, -74 >>,
    << 8124, 8124, 1, -9 >>, << 8136, 8139, 1, -86 >>, << 8140, 8140, 1, -9 >>, << 8152, 8153, 1, -8 >>,
    << 8154, 8155, 1, -100 >>, << 8168, 8169, 1, -8 >>, << 8170, 8171, 1, -112 >>, << 8172, 8172, 1, -7 >>,
    << 8184, 8185, 1, -128 >>, << 8186, 8187, 1, -126 >>, << 8188, 8188, 1, -9 >>, << 8486, 8486, 1, -7517 >>,
    << 8490, 8490, 1, -8383 >>, << 8491, 8491, 1, -8262 >>, << 8498, 8498, 1, 28 >>, << 8544, 8559, 1, 16 >>,
    << 8579, 8579, 1, 1 >>, << 9398, 9423, 1, 26 >>, << 11264, 11311, 1, 48 >>, << 11360, 11360, 1, 1 >>,
    << 11362, 11362, 1, -10743 >>, << 11363, 11363, 1, -3814 >>, << 11364, 11364, 1, -10727 >>, << 11367, 11371, 2, 1 >>,
    << 11373, 11373, 1, -10780 >>, << 11374, 11374, 1, -10749 >>, << 11375, 11375, 1, -10783 >>, << 11376, 11376, 1, -10782 >>,
    << 11378, 11378, 1, 1 >>, << 11381, 11381, 1, 1 >>, << 11390, 11391, 1, -10815 >>, << 11392, 11490, 2, 1 >>,
    << 11499, 11501, 2, 1 >>, << 11506, 11506, 1, 1 >>, << 42560, 42604, 2, 1 >>, << 42624, 42650, 2, 1 >>,
    << 42786, 42798, 2, 1 >>, << 42802, 42862, 2, 1 >>, << 42873, 42875, 2, 1 >>, << 42877, 42877, 1, -35332 >>,
    << 42878, 42886, 2, 1 >>, << 42891, 42891, 1, 1 >>, << 42893, 42893, 1, -42280 >>, << 42896, 42898, 2, 1 >>,
    << 42902, 42920, 2, 1 >>, << 42922, 42922, 1, -42308 >>, << 42923, 42923, 1, -42319 >>, << 42924, 42924, 1, -42315 >>,
    << 42925, 42925, 1, -42305 >>, << 42926, 42926, 1, -42308 >>, << 42928, 42928, 1, -42258 >>, << 42929, 42929, 1, -42282 >>,
    << 42930, 42930, 1, -42261 >>, << 42931, 42931, 1, 928 >>, << 42932, 42946, 2, 1 >>, << 42948, 42948, 1, -48 >>,
    << 42949, 42949, 1, -42307 >>, << 42950, 42950, 1, -35384 >>, << 42951, 42953, 2, 1 >>, << 42960, 42960, 1, 1 >>,
    << 42966, 42968, 2, 1 >>, << 42997, 42997, 1, 1 >>, << 65313, 65338, 1, 32 >>, << 66560, 66599, 1, 40 >>,
    << 66736, 66771, 1, 40 >>, << 66928, 66964, 2, 39 >>, << 66929, 66938, 1, 39 >>, << 66941, 66954, 1, 39 >>,
    << 66957, 66962, 1, 39 >>, << 66965, 66965, 1, 39 >>, << 68736, 68786, 1, 64 >>, << 71840, 71871, 1, 32 >>,
    << 93760, 93791, 1, 32 >>, << 125184, 125217, 1, 34 >> >>

toUpperRanges == <<
    << 181, 181, 1, 743 >>, << 224, 246, 1, -32 >>, << 248, 254, 1, -32 >>, << 255, 255, 1, 121 >>,
    << 257, 303, 2, -1 >>, << 305, 305, 1, -232 >>, << 307, 311, 2, -1 >>, << 314, 328, 2, -1 >>,
    << 331, 375, 2, -1 >>, << 378, 382, 2, -1 >>, << 383, 383, 1, -300 >>, << 384, 384, 1, 195 >>,
    << 387, 389, 2, -1 >>, << 392, 392, 1, -1 >>, << 396, 396, 1, -1 >>, << 402, 402, 1, -1 >>,
    << 405, 405, 1, 97 >>, << 409, 409, 1, -1 >>, << 410, 410, 1, 163 >>, << 414, 414, 1, 130 >>,
    << 417, 421, 2, -1 >>, << 424, 424, 1, -1 >>, << 429, 429, 1, -1 >>, << 432, 432, 1, -1 >>,
    << 436, 438, 2, -1 >>, << 441, 441, 1, -1 >>, << 445, 445, 1, -1 >>, << 447, 447, 1, 56 >>,
    << 453, 453, 1, -1 >>, << 454, 454, 1, -2 >>, << 456, 456, 1, -1 >>, << 457, 457, 1, -2 >>,
    << 459, 459, 1, -1 >>, << 460, 460, 1, -2 >>, << 462, 476, 2, -1 >>, << 477, 477, 1, -79 >>,
    << 479, 495, 2, -1 >>, << 498, 498, 1, -1 >>, << 499, 499, 1, -2 >>, << 501, 501, 1, -1 >>,
    << 505, 543, 2, -1 >>, << 547, 563, 2, -1 >>, << 572, 572, 1, -1 >>, << 575, 576, 1, 10815 >>,
    << 578, 578, 1, -1 >>, << 583, 591, 2, -1 >>, << 592, 592, 1, 10783 >>, << 593, 593, 1, 10780 >>,
    << 594, 594, 1, 10782 >>, << 595, 595, 1, -210 >>, << 596, 596, 1, -206 >>, << 598, 599, 1, -205 >>,
    << 601, 601, 1, -202 >>, << 603, 603, 1, -203 >>, << 604, 604, 1, 42319 >>, << 608, 608, 1, -205 >>,
    << 609, 609, 1, 42315 >>, << 611, 611, 1, -207 >>, << 613, 613, 1, 42280 >>, << 614, 614, 1, 42308 >>,
    << 616, 616, 1, -209 >>, << 617, 617, 1, -211 >>, << 618, 618, 1, 42308 >>, << 619, 619, 1, 10743 >>,
    << 620, 620, 1, 42305 >>, << 623, 623, 1, -211 >>, << 625, 625, 1, 10749 >>, << 626, 626, 1, -213 >>,
    << 629, 629, 1, -214 >>, << 637, 637, 1, 10727 >>, << 640, 640, 1, -218 >>, << 642, 642, 1, 42307 >>,
    << 643, 643, 1, -218 >>, << 647, 647, 1, 42282 >>, << 648, 648, 1, -218 >>, << 649, 649, 1, -69 >>,
    << 650, 651, 1, -217 >>, << 652, 652, 1, -71 >>, << 658, 658, 1, -219 >>, << 669, 669, 1, 42261 >>,
    << 670, 670, 1, 42258 >>, << 837, 837, 1, 84 >>, << 881, 883, 2, -1 >>, << 887, 887, 1, -1 >>,
    << 891, 893, 1, 130 >>, << 940, 940, 1, -38 >>, << 941, 943, 1, -37 >>, << 945, 961, 1, -32 >>,
    << 962, 962, 1, -31 >>, << 963, 971, 1, -32 >>, << 972, 972, 1, -64 >>, << 973, 974, 1, -63 >>,
    << 976, 976, 1, -62 >>, << 977, 977, 1, -57 >>, << 981, 981, 1, -47 >>, << 982, 982, 1, -54 >>,
    << 983, 983, 1, -8 >>, << 985, 1007, 2, -1 >>, << 1008, 1008, 1, -86 >>, << 1009, 1009, 1, -80 >>,
    << 1010, 1010, 1, 7 >>, << 1011, 1011, 1, -116 >>, << 1013, 1013, 1, -96 >>, << 1016, 1016, 1, -1 >>,
    << 1019, 1019, 1, -1 >>, << 1072, 1103, 1, -32 >>, << 1104, 1119, 1, -80 >>, << 1121, 1153, 2, -1 >>,
    << 1163, 1215, 2, -1 >>, << 1218, 1230, 2, -1 >>, << 1231, 1231, 1, -15 >>, << 1233, 1327, 2, -1 >>,
    << 1377, 1414, 1, -48 >>, << 4304, 4346, 1, 3008 >>, << 4349, 4351, 1, 3008 >>, << 5112, 5117, 1, -8 >>,
    << 7296, 7296, 1, -6254 >>, << 7297, 7297, 1, -6253 >>, << 7298, 7298, 1, -6244 >>, << 7299, 7300, 1, -6242 >>,
    << 7301, 7301, 1, -6243 >>, << 7302, 7302, 1, -6236 >>, << 7303, 7303, 1, -6181 >>, << 7304, 7304, 1, 35266 >>,
    << 7545, 7545, 1, 35332 >>, << 7549, 7549, 1, 3814 >>, << 7566, 7566, 1, 35384 >>, << 7681, 7829, 2, -1 >>,
    << 7835, 7835, 1, -59 >>, << 7841, 7935, 2, -1 >>, << 7936, 7943, 1, 8 >>, << 7952, 7957, 1, 8 >>,
    << 7968, 7975, 1, 8 >>, << 7984, 7991, 1, 8 >>, << 8000, 8005, 1, 8 >>, << 8017, 8023, 2, 8 >>,
    << 8032, 8039, 1, 8 >>, << 8048, 8049, 1, 74 >>, << 8050, 8053, 1, 86 >>, << 8054, 8055, 1, 100 >>,
    << 8056, 8057, 1, 128 >>, << 8058, 8059, 1, 112 >>, << 8060, 8061, 1, 126 >>, << 8064, 8071, 1, 8 >>,
    << 8080, 8087, 1, 8 >>, << 8096, 8103, 1, 8 >>, << 8112, 8113, 1, 8 >>, << 8115, 8115, 1, 9 >>,
    << 8126, 8126, 1, -7205 >>, << 8131, 8131, 1, 9 >>, << 8144, 8145, 1, 8 >>, << 8160, 8161, 1, 8 >>,
    << 8165, 8165, 1, 7 >>, << 8179, 8179, 1, 9 >>, << 8526, 8526, 1, -28 >>, << 8560, 8575, 1, -16 >>,
    << 8580, 8580, 1, -1 >>, << 9424, 9449, 1, -26 >>, << 11312, 11359, 1, -48 >>, << 11361, 11361, 1, -1 >>,
    << 11365, 11365, 1, -10795 >>, << 11366, 11366, 1, -10792 >>, << 11368, 11372, 2, -1 >>, << 11379, 11379, 1, -1 >>,
    << 11382, 11382, 1, -1 >>, << 11393, 11491, 2, -1 >>, << 11500, 11502, 2, -1 >>, << 11507, 11507, 1, -1 >>,
    << 11520, 11557, 1, -7264 >>, << 11559, 11559, 1, -7264 >>, << 11565, 11565, 1, -7264 >>, << 42561, 42605, 2, -1 >>,
    << 42625, 42651, 2, -1 >>, << 42787, 42799, 2, -1 >>, << 42803, 42863, 2, -1 >>, << 42874, 42876, 2, -1 >>,
    << 42879, 42887, 2, -1 >>, << 42892, 42892, 1, -1 >>, << 42897, 42899, 2, -1 >>, << 42900, 42900, 1, 48 >>,
    << 42903, 42921, 2, -1 >>, << 42933, 42947, 2, -1 >>, << 42952, 42954, 2, -1 >>, << 42961, 42961, 1, -1 >>,
    << 42967, 42969, 2, -1 >>, << 42998, 42998, 1, -1 >>, << 43859, 43859, 1, -928 >>, << 43888, 43967, 1, -38864 >>,
    << 65345, 65370, 1, -32 >>, << 66600, 66639, 1, -40 >>, << 66776, 66811, 1, -40 >>, << 66967, 67003, 2, -39 >>,
    << 66968, 66977, 1, -39 >>, << 66980, 66993, 1, -39 >>, << 66996, 67001, 1, -39 >>, << 67004, 67004, 1, -39 >>,
    << 68800, 68850, 1, -64 >>, << 71872, 71903, 1, -32 >>, << 93792, 93823, 1, -32 >>, << 125218, 125251, 1, -34 >> >>

toTitleRanges == <<
    << 181, 181, 1, 743 >>, << 224, 246, 1, -32 >>, << 248, 254, 1, -32 >>, << 255, 255, 1, 121 >>,
    << 257, 303, 2, -1 >>, << 305, 305, 1, -232 >>, << 307, 311, 2, -1 >>, << 314, 328, 2, -1 >>,
    << 331, 375, 2, -1 >>, << 378, 382, 2, -1 >>, << 383, 383, 1, -300 >>, << 384, 384, 1, 195 >>,
    << 387, 389, 2, -1 >>, << 392, 392, 1, -1 >>, << 396, 396, 1, -1 >>, << 402, 402, 1, -1 >>,
    << 405, 405, 1, 97 >>, << 409, 409, 1, -1 >>, << 410, 410, 1, 163 >>, << 414, 414, 1, 130 >>,
    << 417, 421, 2, -1 >>, << 424, 424, 1, -1 >>, << 429, 429, 1, -1 >>, << 432, 432, 1, -1 >>,
    << 436, 438, 2, -1 >>, << 441, 441, 1, -1 >>, << 445, 445, 1, -1 >>, << 447, 447, 1, 56 >>,
    << 452, 452, 1, 1 >>, << 454, 454, 1, -1 >>, << 455, 455, 1, 1 >>, << 457, 457, 1, -1 >>,
    << 458, 458, 1, 1 >>, << 460, 476, 2, -1 >>, << 477, 477, 1, -79 >>, << 479, 495, 2, -1 >>,
    << 497, 497, 1, 1 >>, << 499, 501, 2, -1 >>, << 505, 543, 2, -1 >>, << 547, 563, 2, -1 >>,
    << 572, 572, 1, -1 >>, << 575, 576, 1, 10815 >>, << 578, 578, 1, -1 >>, << 583, 591, 2, -1 >>,
    << 592, 592, 1, 10783 >>, << 593, 593, 1, 10780 >>, << 594, 594, 1, 10782 >>, << 595, 595, 1, -210 >>,
    << 596, 596, 1, -206 >>, << 598, 599, 1, -205 >>, << 601, 601, 1, -202 >>, << 603, 603, 1, -203 >>,
    << 604, 604, 1, 42319 >>, << 608, 608, 1, -205 >>, << 609, 609, 1, 42315 >>, << 611, 611, 1, -207 >>,
    << 613, 613, 1, 42280 >>, << 614, 614, 1, 42308 >>, << 616, 616, 1, -209 >>, << 617, 617, 1, -211 >>,
    << 618, 618, 1, 42308 >>, << 619, 619, 1, 10743 >>, << 620, 620, 1, 42305 >>, << 623, 623, 1, -211 >>,
    << 625, 625, 1, 10749 >>, << 626, 626, 1, -213 >>, << 629, 629, 1, -214 >>, << 637, 637, 1, 10727 >>,
    << 640, 640, 1, -218 >>, << 642, 642, 1, 42307 >>, << 643, 643, 1, -218 >>, << 647, 647, 1, 42282 >>,
    << 648, 648, 1, -218 >>, << 649, 649, 1, -69 >>, << 650, 651, 1, -217 >>, << 652, 652, 1, -71 >>,
    << 658, 658, 1, -219 >>, << 669, 669, 1, 42261 >>, << 670, 670, 1, 42258 >>, << 837, 837, 1, 84 >>,
    << 881, 883, 2, -1 >>, << 887, 887, 1, -1 >>, << 891, 893, 1, 130 >>, << 940, 940, 1, -38 >>,
    << 941, 943, 1, -37 >>, << 945, 961, 1, -32 >>, << 962, 962, 1, -31 >>, << 963, 971, 1, -32 >>,
    << 972, 972, 1, -64 >>, << 973, 974, 1, -63 >>, << 976, 976, 1, -62 >>, << 977, 977, 1, -57 >>,
    << 981, 981, 1, -47 >>, << 982, 982, 1, -54 >>, << 983, 983, 1, -8 >>, << 985, 1007, 2, -1 >>,
    << 1008, 1008, 1, -86 >>, << 1009, 1009, 1, -80 >>, << 1010, 1010, 1, 7 >>, << 1011, 1011, 1, -116 >>,
    << 1013, 1013, 1, -96 >>, << 1016, 1016, 1, -1 >>, << 1019, 1019, 1, -1 >>, << 1072, 1103, 1, -32 >>,
    << 1104, 1119, 1, -80 >>, << 1121, 1153, 2, -1 >>, << 1163, 1215, 2, -1 >>, << 1218, 1230, 2, -1 >>,
    << 1231, 1231, 1, -15 >>, << 1233, 1327, 2, -1 >>, << 1377, 1414, 1, -48 >>, << 5112, 5117, 1, -8 >>,
    << 7296, 7296, 1, -6254 >>, << 7297, 7297, 1, -6253 >>, << 7298, 7298, 1, -6244 >>, << 7299, 7300, 1, -6242 >>,
    << 7301, 7301, 1, -6243 >>, << 7302, 7302, 1, -6236 >>, << 7303, 7303, 1, -6181 >>, << 7304, 7304, 1, 35266 >>,
    << 7545, 7545, 1, 35332 >>, << 7549, 7549, 1, 3814 >>, << 7566, 7566, 1, 35384 >>, << 7681, 7829, 2, -1 >>,
    << 7835, 7835, 1, -59 >>, << 7841, 7935, 2, -1 >>, << 7936, 7943, 1, 8 >>, << 7952, 7957, 1, 8 >>,
    << 7968, 7975, 1, 8 >>, << 7984, 7991, 1, 8 >>, << 8000, 8005, 1, 8 >>, << 8017, 8023, 2, 8 >>,
    << 8032, 8039, 1, 8 >>, << 8048, 8049, 1, 74 >>, << 8050, 8053, 1, 86 >>, << 8054, 8055, 1, 100 >>,
    << 8056, 8057, 1, 128 >>, << 8058, 8059, 1, 112 >>, << 8060, 8061, 1, 126 >>, << 8064, 8071, 1, 8 >>,
    << 8080, 8087, 1, 8 >>, << 8096, 8103, 1, 8 >>, << 8112, 8113, 1, 8 >>, << 8115, 8115, 1, 9 >>,
    << 8126, 8126, 1, -7205 >>, << 8131, 8131, 1, 9 >>, << 8144, 8145, 1, 8 >>, << 8160, 8161, 1, 8 >>,
    << 8165, 8165, 1, 7 >>, << 8179, 8179, 1, 9 >>, << 8526, 8526, 1, -28 >>, << 8560, 8575, 1, -16 >>,
    << 8580, 8580, 1, -1 >>, << 9424, 9449, 1, -26 >>, << 11312, 11359, 1, -48 >>, << 11361, 11361, 1, -1 >>,
    << 11365, 11365, 1, -10795 >>, << 11366, 11366, 1, -10792 >>, << 11368, 11372, 2, -1 >>, << 11379, 11379, 1, -1 >>,
    << 11382, 11382, 1, -1 >>, << 11393, 11491, 2, -1 >>, << 11500, 11502, 2, -1 >>, << 11507, 11507, 1, -1 >>,
    << 11520, 11557, 1, -7264 >>, << 11559, 11559, 1, -7264 >>, << 11565, 11565, 1, -7264 >>, << 42561, 42605, 2, -1 >>,
    << 42625, 42651, 2, -1 >>, << 42787, 42799, 2, -1 >>, << 42803, 42863, 2, -1 >>, << 42874, 42876, 2, -1 >>,
    << 42879, 42887, 2, -1 >>, << 42892, 42892, 1, -1 >>, << 42897, 42899, 2, -1 >>, << 42900, 42900, 1, 48 >>,
    << 42903, 42921, 2, -1 >>, << 42933, 42947, 2, -1 >>, << 42952, 42954, 2, -1 >>, << 42961, 42961, 1, -1 >>,
    << 42967, 42969, 2, -1 >>, << 42998, 42998, 1, -1 >>, << 43859, 43859, 1, -928 >>, << 43888, 43967, 1, -38864 >>,
    << 65345, 65370, 1, -32 >>, << 66600, 66639, 1, -40 >>, << 66776, 66811, 1, -40 >>, << 66967, 67003, 2, -39 >>,
    << 66968, 66977, 1, -39 >>, << 66980, 66993, 1, -39 >>, << 66996, 67001, 1, -39 >>, << 67004, 67004, 1, -39 >>,
    << 68800, 68850, 1, -64 >>, << 71872, 71903, 1, -32 >>, << 93792, 93823, 1, -32 >>, << 125218, 125251, 1, -34 >> >>

MapRune(ranges, c) ==
    IF \E k \in DOMAIN ranges :
          ranges[k][1] <= c /\ c <= ranges[k][2] /\ (c - ranges[k][1]) % ranges[k][3] = 0
    THEN c + ranges[CHOOSE k \in DOMAIN ranges :
                      /\ ranges[k][1] <= c /\ c <= ranges[k][2]
                      /\ (c - ranges[k][1]) % ranges[k][3] = 0][4]
    ELSE c

ToLowerRune(c) ==
    IF c < 128 THEN (IF 65 <= c /\ c <= 90 THEN c + 32 ELSE c)
    ELSE MapRune(toLowerRanges, c)

ToUpperRune(c) ==
    IF c < 128 THEN (IF 97 <= c /\ c <= 122 THEN c - 32 ELSE c)
    ELSE MapRune(toUpperRanges, c)

ToTitleRune(c) ==
    IF c < 128 THEN (IF 97 <= c /\ c <= 122 THEN c - 32 ELSE c)
    ELSE MapRune(toTitleRanges, c)

\* unicode.IsSpace: the White_Space runes
IsSpace(c) ==
    \/ c \in { 9, 10, 11, 12, 13, 32, 133, 160, 5760, 8232, 8233, 8239, 8287, 12288 }
    \/ (8192 <= c /\ c <= 8202)

RuneError == 65533

(***************************************************************************)
(* package strings, regexp, strconv, encoding/json, path/filepath as used  *)
(* by icons.go                                                             *)
(***************************************************************************)
Range(s) == { s[k] : k \in DOMAIN s }

ToLower(s) == [k \in DOMAIN s |-> ToLowerRune(s[k])]

ToUpper(s) == [k \in DOMAIN s |-> ToUpperRune(s[k])]

ReplaceAll(s, old, new) == [k \in DOMAIN s |-> IF s[k] = old THEN new ELSE s[k]]

HasPrefix(s, p) == Len(s) >= Len(p) /\ SubSeq(s, 1, Len(p)) = p

HasSuffix(s, p) == Len(s) >= Len(p) /\ SubSeq(s, Len(s) - Len(p) + 1, Len(s)) = p

TrimPrefix(s, p) == IF HasPrefix(s, p) THEN SubSeq(s, Len(p) + 1, Len(s)) ELSE s

TrimSuffix(s, p) == IF HasSuffix(s, p) THEN SubSeq(s, 1, Len(s) - Len(p)) ELSE s

Contains(s, sub) ==
    \E k \in 1..(Len(s) - Len(sub) + 1) : SubSeq(s, k, k + Len(sub) - 1) = sub

RECURSIVE Split(_, _)
Split(s, sep) ==
    IF sep \notin Range(s) THEN << s >>
    ELSE LET k == CHOOSE n \in DOMAIN s : s[n] = sep /\ \A m \in 1..(n - 1) : s[m] # sep
         IN  << SubSeq(s, 1, k - 1) >> \o Split(SubSeq(s, k + 1, Len(s)), sep)

RECURSIVE TrimLeft(_)
TrimLeft(s) == IF s # << >> /\ IsSpace(Head(s)) THEN TrimLeft(Tail(s)) ELSE s

RECURSIVE TrimRight(_)
TrimRight(s) ==
    IF s # << >> /\ IsSpace(s[Len(s)]) THEN TrimRight(SubSeq(s, 1, Len(s) - 1)) ELSE s

TrimSpace(s) == TrimRight(TrimLeft(s))

RECURSIVE FieldsFrom(_, _)
FieldsFrom(s, word) ==
    IF s = << >> THEN (IF word = << >> THEN << >> ELSE << word >>)
    ELSE IF IsSpace(Head(s))
         THEN (IF word = << >> THEN << >> ELSE << word >>) \o FieldsFrom(Tail(s), << >>)
         ELSE FieldsFrom(Tail(s), Append(word, Head(s)))

Fields(s) == FieldsFrom(s, << >>)

RECURSIVE Join(_, _)
Join(words, sep) ==
    IF words = << >> THEN << >>
    ELSE IF Len(words) = 1 THEN words[1]
    ELSE words[1] \o sep \o Join(Tail(words), sep)

IsAsciiAlnum(c) == (48 <= c /\ c <= 57) \/ (97 <= c /\ c <= 122) \/ (65 <= c /\ c <= 90)

\* strings.isSeparator: ASCII letters, digits and underscore are no
\* separators and every other ASCII rune is one; outside ASCII letters and
\* digits are no separators and the rest is one when it is a space, and no
\* letter or digit is a space
isSeparator(c) ==
    IF c <= 127 THEN ~(IsAsciiAlnum(c) \/ c = 95)
    ELSE IsSpace(c)

Title(s) ==
    [k \in DOMAIN s |->
        IF isSeparator(IF k = 1 THEN 32 ELSE s[k - 1]) THEN ToTitleRune(s[k]) ELSE s[k]]

\* the runes that [^a-z0-9-] does not match
SlugChars == (97..122) \cup (48..57) \cup { 45 }

StripNonSlug(s) == SelectSeq(s, LAMBDA c : c \in SlugChars)

IsHex(c) == (48 <= c /\ c <= 57) \/ (97 <= c /\ c <= 102) \/ (65 <= c /\ c <= 70)

HexVal(c) == IF c <= 57 THEN c - 48 ELSE IF c >= 97 THEN c - 87 ELSE c - 55

ParseHex4(h) == ((HexVal(h[1]) * 16 + HexVal(h[2])) * 16 + HexVal(h[3])) * 16 + HexVal(h[4])

\* string(rune(code)): a surrogate is no rune and converts to U+FFFD
RuneOf(code) == IF 55296 <= code /\ code <= 57343 THEN RuneError ELSE code

\* the number of bytes of a rune in UTF-8 and the first of them
Utf8Len(c) == IF c < 128 THEN 1 ELSE IF c < 2048 THEN 2 ELSE IF c < 65536 THEN 3 ELSE 4

Utf8First(c) ==
    IF c < 128 THEN c
    ELSE IF c < 2048 THEN 192 + (c \div 64)
    ELSE IF c < 65536 THEN 224 + (c \div 4096)
    ELSE 240 + (c \div 262144)

HexDigit(n) == IF n < 10 THEN 48 + n ELSE 87 + n

\* json.Marshal of one rune of a string, with HTML escaping; backspace and
\* form feed have the two-character escapes that encoding/json writes since
\* Go 1.22 (earlier releases wrote \u0008 and \u000c)
JSONQuoteRune(c) ==
    IF c = 34 \/ c = 92 THEN << 92, c >>
    ELSE IF c = 8 THEN Str("\\b")
    ELSE IF c = 12 THEN Str("\\f")
    ELSE IF c = 10 THEN Str("\\n")
    ELSE IF c = 13 THEN Str("\\r")
    ELSE IF c = 9 THEN Str("\\t")
    ELSE IF c < 32 \/ c = 60 \/ c = 62 \/ c = 38
         THEN Str("\\u00") \o << HexDigit(c \div 16), HexDigit(c % 16) >>
    ELSE IF c = 8232 THEN Str("\\u2028")
    ELSE IF c = 8233 THEN Str("\\u2029")
    ELSE << c >>

RECURSIVE JSONQuoteBody(_)
JSONQuoteBody(s) ==
    IF s = << >> THEN << >> ELSE JSONQuoteRune(Head(s)) \o JSONQuoteBody(Tail(s))

JSONString(s) == Str("\"") \o JSONQuoteBody(s) \o Str("\"")

RECURSIVE JSONElements(_)
JSONElements(arr) ==
    IF Len(arr) = 1 THEN JSONString(arr[1])
    ELSE JSONString(arr[1]) \o Str(",") \o JSONElements(Tail(arr))

\* filepath.Clean on the components of a path: "." and empty components go,
\* ".." removes the component before it, or stays when there is none and the
\* path is not rooted
RECURSIVE cleanComponents(_, _, _)
cleanComponents(parts, out, rooted) ==
    IF parts = << >> THEN out
    ELSE LET p == Head(parts)
         IN  IF p = << >> \/ p = Str(".")
             THEN cleanComponents(Tail(parts), out, rooted)
             ELSE IF p = Str("..")
             THEN IF out # << >> /\ out[Len(out)] # Str("..")
                  THEN cleanComponents(Tail(parts), SubSeq(out, 1, Len(out) - 1), rooted)
                  ELSE IF rooted THEN cleanComponents(Tail(parts), out, rooted)
                  ELSE cleanComponents(Tail(parts), Append(out, p), rooted)
             ELSE cleanComponents(Tail(parts), Append(out, p), rooted)

filepathClean(path) ==
    IF path = << >> THEN Str(".")
    ELSE LET rooted == path[1] = R("/")
             body   == Join(cleanComponents(Split(path, R("/")), << >>, rooted), Str("/"))
         IN  IF rooted THEN Str("/") \o body
             ELSE IF body = << >> THEN Str(".")
             ELSE body

\* filepath.Join: the non-empty elements joined by "/" and cleaned; no
\* non-empty element gives the empty string
filepathJoin(elems) ==
    LET nonEmpty == SelectSeq(elems, LAMBDA e : e # << >>)
    IN  IF nonEmpty = << >> THEN << >> ELSE filepathClean(Join(nonEmpty, Str("/")))

\* filepath.Dir of a cleaned path
filepathDir(path) ==
    IF R("/") \notin Range(path) THEN Str(".")
    ELSE LET last == CHOOSE k \in DOMAIN path :
                        path[k] = R("/") /\ \A m \in (k + 1)..Len(path) : path[m] # R("/")
         IN  IF last = 1 THEN Str("/") ELSE SubSeq(path, 1, last - 1)

(***************************************************************************)
(* Constants and package variables of icons.go                             *)
(***************************************************************************)
\* batchSize and testLimit as the const block sets them
defaultBatchSize == 5

defaultTestLimit == 10

sourceURL == Str("https://icons.terrastruct.com")

outputDir == Str("output")

jsonFile == Str("icons_rag.json")

popularServices ==
    { Str("ec2"), Str("s3"), Str("lambda"), Str("rds"), Str("dynamodb"),
      Str("vpc"), Str("eks"), Str("ecs"), Str("kubernetes"), Str("docker") }

ZeroEnrichment ==
    [ Category |-> << >>, Aliases |-> << >>, TechnicalIntent |-> << >>,
      SemanticProfile |-> << >>, Tags |-> << >>, ShapeType |-> << >>,
      IsContainer |-> FALSE, BrandColor |-> << >> ]

(***************************************************************************)
(* Pure helper functions of icons.go                                       *)
(***************************************************************************)
\* generateSlug without the [^a-z0-9-] filter
generateSlugMut(provider, title) ==
    ToLower(provider) \o Str("-") \o ToLower(ReplaceAll(title, R(" "), R("-")))

generateSlug(provider, title) ==
    LET clean == StripNonSlug(ToLower(ReplaceAll(title, R(" "), R("-"))))
    IN  ToLower(provider) \o Str("-") \o clean

\* lines 418-420: word[0] is the first byte of the word and word[1:] the
\* bytes after it.  When the first rune is not ASCII, word[0] is the first
\* byte of its UTF-8 encoding, converted to the rune of that value, and
\* word[1:] starts with the continuation bytes, each of which ToLower
\* replaces by U+FFFD
Capitalize(word) ==
    IF Len(word) > 0
    THEN << ToUpperRune(Utf8First(word[1])) >>
            \o [k \in 1..(Utf8Len(word[1]) - 1) |-> RuneError]
            \o ToLower(SubSeq(word, 2, Len(word)))
    ELSE word

\* cleanDisplayName that leaves underscores in place
cleanDisplayNameMut(title) ==
    LET name  == ReplaceAll(TrimSpace(title), R("-"), R(" "))
        words == Fields(name)
    IN  Join([i \in DOMAIN words |-> Capitalize(words[i])], Str(" "))

cleanDisplayName(title) ==
    LET name  == ReplaceAll(ReplaceAll(TrimSpace(title), R("_"), R(" ")), R("-"), R(" "))
        words == Fields(name)
    IN  Join([i \in DOMAIN words |-> Capitalize(words[i])], Str(" "))

determineDefaultWidth(category) ==
    IF category \in { Str("network"), Str("container") } THEN 128
    ELSE IF category \in { Str("storage"), Str("database") } THEN 96
    ELSE 64

\* float32 popularity in tenths: 10 is 1.0, 5 is 0.5
calculatePopularity(title) ==
    IF \E service \in popularServices : Contains(ToLower(title), service) THEN 10 ELSE 5

arrayToJSON(arr) ==
    IF Len(arr) = 0 THEN Str("[]") ELSE Str("[") \o JSONElements(arr) \o Str("]")

providerMap ==
    << << Str("AWS"), Str("Amazon Web Services") >>,
       << Str("AZURE"), Str("Microsoft Azure") >>,
       << Str("GCP"), Str("Google Cloud Platform") >>,
       << Str("ESSENTIALS"), Str("Essential Icons") >>,
       << Str("DEV"), Str("Development Tools") >>,
       << Str("INFRA"), Str("Infrastructure") >>,
       << Str("TECH"), Str("Technology") >>,
       << Str("SOCIAL"), Str("Social Media") >>,
       << Str("EMOTIONS"), Str("Emojis") >> >>

reverseMap ==
    << << Str("Amazon Web Services"), Str("aws") >>,
       << Str("Microsoft Azure"), Str("azure") >>,
       << Str("Google Cloud Platform"), Str("gcp") >>,
       << Str("Essential Icons"), Str("essentials") >>,
       << Str("Development Tools"), Str("dev") >>,
       << Str("Infrastructure"), Str("infra") >>,
       << Str("Technology"), Str("tech") >>,
       << Str("Social Media"), Str("social") >>,
       << Str("Emojis"), Str("emotions") >> >>

HasKey(m, k) == \E i \in DOMAIN m : m[i][1] = k

Lookup(m, k) == m[CHOOSE i \in DOMAIN m : m[i][1] = k][2]

getFullProviderName(provider) ==
    IF HasKey(providerMap, ToUpper(provider))
    THEN Lookup(providerMap, ToUpper(provider))
    ELSE Title(ToLower(provider))

getProviderKey(fullProviderName) ==
    IF HasKey(reverseMap, fullProviderName)
    THEN Lookup(reverseMap, fullProviderName)
    ELSE ToLower(fullProviderName)

RECURSIVE getUnescaped(_)
getUnescaped(escaped) ==
    IF escaped = << >> THEN << >>
    ELSE IF /\ Len(escaped) >= 6
            /\ escaped[1] = R("\\")
            /\ escaped[2] = R("u")
            /\ \A i \in 3..6 : IsHex(escaped[i])
         THEN << RuneOf(ParseHex4(SubSeq(escaped, 3, 6))) >>
                 \o getUnescaped(SubSeq(escaped, 7, Len(escaped)))
         ELSE << Head(escaped) >> \o getUnescaped(Tail(escaped))

(***************************************************************************)
(* verifyIconifyID: resps[k] is the search service's answer to the k-th    *)
(* query.  kind "error" is a transport failure, "malformed" a body that    *)
(* does not decode, "json" a decoded body with its total and icons.        *)
(***************************************************************************)
IsHit(resp) == resp.kind = "json" /\ resp.Total > 0 /\ Len(resp.Icons) > 0

RECURSIVE verifyFrom(_, _, _, _)
verifyFrom(queries, resps, k, fallback) ==
    IF k > Len(queries)
    THEN [ sent |-> queries, id |-> fallback, synthesized |-> TRUE ]
    ELSE IF IsHit(resps[k])
         THEN [ sent |-> SubSeq(queries, 1, k), id |-> resps[k].Icons[1],
                synthesized |-> FALSE ]
         ELSE verifyFrom(queries, resps, k + 1, fallback)

\* lines 375-379
searchQueries(provider, title, slug) == << provider \o Str(" ") \o title, title, slug >>

\* verifyIconifyID that asks for the bare title first
verifyIconifyIDMut(provider, title, slug, resps) ==
    LET queries    == << title, provider \o Str(" ") \o title, slug >>
        titleClean == StripNonSlug(ToLower(ReplaceAll(title, R(" "), R("-"))))
    IN  verifyFrom(queries, resps, 1,
                   Str("logos:") \o ToLower(provider) \o Str("-") \o titleClean)

verifyIconifyID(provider, title, slug, resps) ==
    LET queries    == searchQueries(provider, title, slug)
        titleClean == StripNonSlug(ToLower(ReplaceAll(title, R(" "), R("-"))))
    IN  verifyFrom(queries, resps, 1,
                   Str("logos:") \o ToLower(provider) \o Str("-") \o titleClean)

createIconPayload(provider, title, link, displayName, enrichment, timestamp, id, resps) ==
    LET slug == generateSlug(provider, title)
    IN  [ ID              |-> id,
          Slug            |-> slug,
          IconifyID       |-> verifyIconifyID(provider, title, slug, resps).id,
          Provider        |-> getFullProviderName(provider),
          URL             |-> sourceURL \o Str("/") \o link,
          SemanticProfile |-> enrichment.SemanticProfile,
          DisplayName     |-> displayName,
          Aliases         |-> arrayToJSON(enrichment.Aliases),
          Description     |-> displayName \o Str(" from ") \o provider \o Str(". ")
                                \o enrichment.TechnicalIntent,
          TechnicalIntent |-> enrichment.TechnicalIntent,
          ShapeType       |-> enrichment.ShapeType,
          DefaultWidth    |-> determineDefaultWidth(enrichment.Category),
          IsContainer     |-> enrichment.IsContainer,
          IconPosition    |-> IF enrichment.IsContainer THEN Str("top-left") ELSE Str("center"),
          ColorTheme      |-> enrichment.BrandColor,
          Popularity      |-> calculatePopularity(title),
          Tags            |-> arrayToJSON(enrichment.Tags),
          LastScraped     |-> timestamp ]

(***************************************************************************)
(* State                                                                   *)
(***************************************************************************)
VARIABLES
    useLLMEnrichment,     \* const block, line 93
    useBatchProcessing,   \* line 97
    batchSize,            \* line 98
    testingMode,          \* line 100
    testLimit,            \* line 101
    pc,                   \* position of Generate
    fatalMsg,             \* which log.Fatalf ended the process, if any
    llmServiceAvailable,  \* package variable, line 109
    categories,           \* package variable, line 105
    categoryCount,        \* local map of Generate
    pendingIcons,
    allIcons,
    providerIcons,
    i,                    \* loop position of the enrichment loops
    page,                 \* icon elements of the source page not yet visited
    requests,             \* requests sent to the classification service
    lastBatch,            \* last call of batchEnrichIcons and what it returned
    dirs,                 \* directories that exist
    files,                \* files written: path -> "complete" or "partial"
    written,              \* providers whose file was written, in order
    fnProvider,           \* arguments and result of a helper called directly
    fnTitle,
    fnOut

vars ==
    << useLLMEnrichment, useBatchProcessing, batchSize, testingMode, testLimit,
       pc, fatalMsg, llmServiceAvailable, categories, categoryCount, pendingIcons,
       allIcons, providerIcons, i, page, requests, lastBatch,
       dirs, files, written, fnProvider, fnTitle, fnOut >>

configVars == << useLLMEnrichment, useBatchProcessing, batchSize, testingMode, testLimit >>

fnVars == << fnProvider, fnTitle, fnOut >>

(***************************************************************************)
(* Inputs: the elements of the scraped page and the services' answers      *)
(***************************************************************************)
DivRow ==
    [ class |-> Str("row"), onclick |-> Str(""), dataSearch |-> Str("") ]

IconEmptyLink ==
    [ class |-> Str("icon"), onclick |-> Str("clickIcon(\"\")"), dataSearch |-> Str("blank") ]

IconNoPercent ==
    [ class |-> Str("icon"), onclick |-> Str("clickIcon(\"aws/rds.svg\")"), dataSearch |-> Str("rds") ]

IconEc2 ==
    [ class |-> Str("icon"), onclick |-> Str("clickIcon(\"aws%2Fec2.svg\")"),
      dataSearch |-> Str("ec2_instance") ]

IconGcp ==
    [ class |-> Str("icon"), onclick |-> Str("clickIcon(\"gcp%2FRun.svg\")"),
      dataSearch |-> Str("Cloud Run") ]

IconTechnology ==
    [ class |-> Str("icon"), onclick |-> Str("clickIcon(\"technology\\u00252Fmq.svg\")"),
      dataSearch |-> Str("queue") ]

Elements == { DivRow, IconEmptyLink, IconNoPercent, IconEc2, IconGcp, IconTechnology }

RECURSIVE SeqsUpTo(_, _)
SeqsUpTo(S, n) ==
    IF n = 0 THEN { << >> }
    ELSE LET shorter == SeqsUpTo(S, n - 1)
         IN  shorter \cup { Append(s, x) : s \in { t \in shorter : Len(t) = n - 1 }, x \in S }

Pages == SeqsUpTo(Elements, MaxPage)

SearchError == [ kind |-> "error", Total |-> 0, Icons |-> << >> ]

SearchMalformed == [ kind |-> "malformed", Total |-> 0, Icons |-> << >> ]

SearchNoHits == [ kind |-> "json", Total |-> 0, Icons |-> << >> ]

SearchTotalOnly == [ kind |-> "json", Total |-> 2, Icons |-> << >> ]

SearchIconsOnly == [ kind |-> "json", Total |-> 0, Icons |-> << Str("mdi:cloud") >> ]

SearchHit(k) ==
    [ kind |-> "json", Total |-> 2,
      Icons |-> << Str("logos:hit-") \o << 48 + k >>, Str("mdi:other") >> ]

SearchResponses(k) ==
    { SearchError, SearchMalformed, SearchNoHits, SearchTotalOnly, SearchIconsOnly,
      SearchHit(k) }

\* the icon search service during a run of Generate: it knows "Cloud Run",
\* cannot be reached for queries that start with TECHNOLOGY and finds nothing else
SearchService(query) ==
    IF query = Str("Cloud Run") THEN SearchHit(2)
    ELSE IF HasPrefix(query, Str("TECHNOLOGY")) THEN SearchError
    ELSE SearchNoHits

\* what the classification service answers for the k-th icon of a request
ServiceEnrichment(k) ==
    [ Category        |-> IF k % 3 = 1 THEN Str("network")
                          ELSE IF k % 3 = 2 THEN Str("storage") ELSE Str("compute"),
      Aliases         |-> << Str("alias") \o << 48 + k >>, Str("a<b") >>,
      TechnicalIntent |-> Str("intent") \o << 48 + k >>,
      SemanticProfile |-> Str("profile") \o << 48 + k >>,
      Tags            |-> << Str("tag") \o << 48 + k >> >>,
      ShapeType       |-> Str("image"),
      IsContainer     |-> (k % 2 = 1),
      BrandColor      |-> Str("#ff990") \o << 48 + k >> ]

FailureKinds == { "error", "status", "decode" }

\* answers to a batch request of n icons: a failure, or a decoded body whose
\* results list has between 0 and n + 1 entries
BatchResponses(n) ==
    { [ kind |-> f, results |-> << >> ] : f \in FailureKinds }
    \cup { [ kind |-> "ok", results |-> [ j \in 1..len |-> ServiceEnrichment(j) ] ]
           : len \in 0..(n + 1) }

ClassifyResponses ==
    { [ kind |-> f, enrichment |-> ZeroEnrichment ] : f \in FailureKinds }
    \cup { [ kind |-> "ok", enrichment |-> ServiceEnrichment(2) ] }

timestamp == Str("2024-05-01T10:00:00Z")

NoCall == [ op |-> "none" ]

NoBatch == [ from |-> 0, to |-> 0, kind |-> "none", returned |-> << >> ]

(***************************************************************************)
(* Generate                                                                *)
(***************************************************************************)
Count(m, k) == IF k \in DOMAIN m THEN m[k] ELSE 0

Group(m, k) == IF k \in DOMAIN m THEN m[k] ELSE << >>

Min(a, b) == IF a < b THEN a ELSE b

InitConfig ==
    /\ useLLMEnrichment \in BOOLEAN
    /\ useBatchProcessing \in BOOLEAN
    /\ batchSize \in (1..MaxBatchSize) \cup { defaultBatchSize }
    /\ testingMode \in BOOLEAN
    /\ testLimit \in (1..MaxTestLimit) \cup { defaultTestLimit }
    \* a switch that the other switches disable keeps the value of the const block
    /\ ~useLLMEnrichment => useBatchProcessing
    /\ ~(useLLMEnrichment /\ useBatchProcessing) => batchSize = defaultBatchSize
    /\ testingMode <=> testLimit # defaultTestLimit
    \* the switches are varied one group at a time: the cap of the collection
    \* with enrichment off as in the const block, the enrichment switches with
    \* the cap off as in the const block
    /\ testingMode => ~useLLMEnrichment

InitGenerate ==
    /\ pc = "start"
    /\ fatalMsg = "none"
    /\ llmServiceAvailable = FALSE
    /\ categories = {}
    /\ categoryCount = << >>
    /\ pendingIcons = << >>
    /\ allIcons = << >>
    /\ providerIcons = << >>
    /\ i = 0
    /\ requests = << >>
    /\ lastBatch = NoBatch
    /\ dirs = {}
    /\ files = << >>
    /\ written = << >>

Init ==
    /\ InitConfig
    /\ InitGenerate
    /\ page = << >>
    /\ fnProvider = << >>
    /\ fnTitle = << >>
    /\ fnOut = NoCall

HealthResponses == { "ok", "status", "error" }

\* lines 123-131 with checkLLMService, lines 247-263
CheckLLM ==
    /\ pc = "start"
    /\ \E resp \in (IF useLLMEnrichment THEN HealthResponses ELSE { "skipped" }) :
        IF useLLMEnrichment
        THEN /\ requests' = Append(requests, [ op |-> "health", from |-> 0, to |-> 0,
                                                icons |-> << >> ])
             /\ llmServiceAvailable' = (resp = "ok")
        ELSE UNCHANGED << requests, llmServiceAvailable >>
    /\ pc' = "mkdir"
    /\ UNCHANGED << configVars, fatalMsg, categories, categoryCount, pendingIcons,
                    allIcons, providerIcons, i, page, lastBatch,
                    dirs, files, written, fnVars >>

\* lines 133-135
MkdirOutput ==
    /\ pc = "mkdir"
    /\ \E ok \in BOOLEAN :
        IF ok
        THEN /\ dirs' = dirs \cup { outputDir }
             /\ pc' = "visit"
             /\ UNCHANGED fatalMsg
        ELSE /\ pc' = "fatal"
             /\ fatalMsg' = "mkdir"
             /\ UNCHANGED dirs
    /\ UNCHANGED << configVars, llmServiceAvailable, categories, categoryCount,
                    pendingIcons, allIcons, providerIcons, i, page, requests, lastBatch, files, written, fnVars >>

\* lines 140-143 and 174: the page is fetched and its elements are queued for
\* OnHTML, or the fetch fails and OnError ends the process
Visit ==
    /\ pc = "visit"
    /\ \/ \E fetched \in Pages :
            /\ page' = fetched
            /\ pc' = "html"
            /\ UNCHANGED fatalMsg
       \/ /\ pc' = "fatal"
          /\ fatalMsg' = "scrape"
          /\ UNCHANGED page
    /\ UNCHANGED << configVars, llmServiceAvailable, categories, categoryCount,
                    pendingIcons, allIcons, providerIcons, i, requests, lastBatch, dirs, files, written, fnVars >>

linkOf(e) ==
    TrimSuffix(TrimPrefix(getUnescaped(e.onclick), Str("clickIcon(\"")), Str("\")"))

categoryOf(link) == ToUpper(Split(link, R("%"))[1])

\* the guard of lines 146 and 150
IsIconLink(e) == e.class = Str("icon") /\ linkOf(e) # << >> /\ Contains(linkOf(e), Str("%"))

pendingOf(e) ==
    [ Category    |-> categoryOf(linkOf(e)),
      Title       |-> e.dataSearch,
      Link        |-> linkOf(e),
      DisplayName |-> cleanDisplayName(e.dataSearch) ]

\* the guard of line 155 with > for >=
OverLimitMut(category) == testingMode /\ Count(categoryCount, category) > testLimit

\* the guard of line 155
OverLimit(category) == testingMode /\ Count(categoryCount, category) >= testLimit

\* lines 145-172: the OnHTML callback on the next element of the page
OnHTML ==
    /\ pc = "html"
    /\ page # << >>
    /\ LET e == Head(page)
       IN  IF IsIconLink(e) /\ ~OverLimit(categoryOf(linkOf(e)))
           THEN LET category == categoryOf(linkOf(e))
                IN  /\ categories' = categories \cup { category }
                    /\ categoryCount' =
                          [ c \in DOMAIN categoryCount \cup { category } |->
                              IF c = category THEN Count(categoryCount, c) + 1
                              ELSE categoryCount[c] ]
                    /\ pendingIcons' = Append(pendingIcons, pendingOf(e))
           ELSE UNCHANGED << categories, categoryCount, pendingIcons >>
    /\ page' = Tail(page)
    /\ UNCHANGED << configVars, pc, fatalMsg, llmServiceAvailable, allIcons,
                    providerIcons, i, requests, lastBatch, dirs, files,
                    written, fnVars >>

\* line 174 returns
VisitDone ==
    /\ pc = "html"
    /\ page = << >>
    /\ pc' = "enrich"
    /\ UNCHANGED << configVars, fatalMsg, llmServiceAvailable, categories,
                    categoryCount, pendingIcons, allIcons, providerIcons, i, page,
                    requests, lastBatch, dirs, files, written, fnVars >>

\* the condition of line 182 without the health check's result
BatchModeMut == useLLMEnrichment /\ useBatchProcessing

\* line 182
BatchMode == useLLMEnrichment /\ llmServiceAvailable /\ useBatchProcessing

zeroResults(n) == [ j \in 1..n |-> ZeroEnrichment ]

batchRequest(pending) ==
    [ j \in DOMAIN pending |->
        [ Provider    |-> pending[j].Category,
          Title       |-> pending[j].Title,
          DisplayName |-> pending[j].DisplayName ] ]

\* batchEnrichIcons that returns no results on a failure
batchEnrichIconsMut(pending, resp) ==
    IF resp.kind = "ok" THEN resp.results ELSE << >>

\* lines 265-308, given the service's answer to the request
batchEnrichIcons(pending, resp) ==
    IF resp.kind = "ok" THEN resp.results ELSE zeroResults(Len(pending))

\* lines 194-198 reading the results from the end
enrichmentAtMut(enrichments, j) ==
    IF j <= Len(enrichments) THEN enrichments[Len(enrichments) - j + 1]
    ELSE ZeroEnrichment

\* lines 194-198
enrichmentAt(enrichments, j) ==
    IF j <= Len(enrichments) THEN enrichments[j] ELSE ZeroEnrichment

\* what the search service answers to the three queries of verifyIconifyID
searchAnswers(provider, title) ==
    LET queries == searchQueries(provider, title, generateSlug(provider, title))
    IN  [ k \in DOMAIN queries |-> SearchService(queries[k]) ]

iconOf(pending, enrichment, id) ==
    createIconPayload(pending.Category, pending.Title, pending.Link,
                      pending.DisplayName, enrichment, timestamp, id,
                      searchAnswers(pending.Category, pending.Title))

RECURSIVE addIcons(_, _)
addIcons(groups, icons) ==
    IF icons = << >> THEN groups
    ELSE LET icon == Head(icons)
         IN  addIcons([ p \in DOMAIN groups \cup { icon.Provider } |->
                          IF p = icon.Provider THEN Append(Group(groups, p), icon)
                          ELSE groups[p] ],
                      Tail(icons))

\* the loop step of line 185 advancing by one icon
nextBatchMut(k) == k + 1

\* line 185: i += batchSize
nextBatch(k) == k + batchSize

\* lines 186-189
batchEnd(k) == Min(k + batchSize, Len(pendingIcons))

\* lines 185-206: one iteration of the batch loop
BatchStep ==
    /\ pc = "enrich"
    /\ BatchMode
    /\ i < Len(pendingIcons)
    /\ LET end   == batchEnd(i)
           batch == SubSeq(pendingIcons, i + 1, end)
       IN  \E resp \in BatchResponses(Len(batch)) :
             LET enrichments == batchEnrichIcons(batch, resp)
                 icons == [ j \in 1..Len(batch) |->
                              iconOf(batch[j], enrichmentAt(enrichments, j),
                                     Len(allIcons) + j) ]
             IN  /\ requests' = Append(requests,
                                       [ op |-> "batch", from |-> i, to |-> end,
                                         icons |-> batchRequest(batch) ])
                 /\ lastBatch' = [ from |-> i, to |-> end, kind |-> resp.kind,
                                   returned |-> enrichments ]
                 /\ allIcons' = allIcons \o icons
                 /\ providerIcons' = addIcons(providerIcons, icons)
    /\ i' = nextBatch(i)
    /\ UNCHANGED << configVars, pc, fatalMsg, llmServiceAvailable, categories,
                    categoryCount, pendingIcons, page, dirs, files,
                    written, fnVars >>

\* lines 209-218 with getLLMEnrichment, lines 342-372: one iteration
IndividualStep ==
    /\ pc = "enrich"
    /\ ~BatchMode
    /\ i < Len(pendingIcons)
    /\ LET pending == pendingIcons[i + 1]
           asked   == useLLMEnrichment /\ llmServiceAvailable
       IN  \E resp \in (IF asked THEN ClassifyResponses
                        ELSE { [ kind |-> "unasked", enrichment |-> ZeroEnrichment ] }) :
             LET icon == iconOf(pending, resp.enrichment, Len(allIcons) + 1)
             IN  /\ requests' =
                       IF asked
                       THEN Append(requests, [ op |-> "classify", from |-> i,
                                               to |-> i + 1,
                                               icons |-> batchRequest(<< pending >>) ])
                       ELSE requests
                 /\ allIcons' = Append(allIcons, icon)
                 /\ providerIcons' = addIcons(providerIcons, << icon >>)
    /\ i' = i + 1
    /\ UNCHANGED << configVars, pc, fatalMsg, llmServiceAvailable, categories,
                    categoryCount, pendingIcons, page, lastBatch, dirs,
                    files, written, fnVars >>

\* line 221: either loop has run off the end of pendingIcons
EnrichDone ==
    /\ pc = "enrich"
    /\ i >= Len(pendingIcons)
    /\ pc' = "mkdirs"
    /\ UNCHANGED << configVars, fatalMsg, llmServiceAvailable, categories,
                    categoryCount, pendingIcons, allIcons, providerIcons, i, page,
                    requests, lastBatch, dirs, files, written, fnVars >>

categoryDir(category) == filepathJoin(<< outputDir, ToLower(category) >>)

\* os.MkdirAll: the directory and the parents it lacks
MkdirAll(path) ==
    { SubSeq(path, 1, k) : k \in { n \in DOMAIN path : n = Len(path) \/ path[n + 1] = R("/") } }
        \ { << >> }

\* lines 223-226: os.MkdirAll is called for every category and its error is
\* dropped, so the loop goes on whether or not a directory could be made
MkdirCategories ==
    /\ pc = "mkdirs"
    /\ \E made \in SUBSET categories :
          dirs' = dirs \cup UNION { MkdirAll(categoryDir(c)) : c \in made }
    /\ pc' = "write"
    /\ UNCHANGED << configVars, fatalMsg, llmServiceAvailable, categories,
                    categoryCount, pendingIcons, allIcons, providerIcons, i, page,
                    requests, lastBatch, files, written, fnVars >>

providerPath(provider) ==
    filepathJoin(<< outputDir, getProviderKey(provider),
                    getProviderKey(provider) \o Str(".json") >>)

\* the directory os.OpenFile needs for the provider's file
providerDir(provider) == filepathDir(filepathClean(providerPath(provider)))

ragPath == filepathJoin(<< outputDir, jsonFile >>)

\* lines 492-503: "open" fails before the file exists, "encode" after it was
\* truncated; a file in a missing directory cannot be opened
WriteOutcomes(dir) ==
    IF dir \in dirs \cup { Str(".") } THEN { "ok", "open", "encode" } ELSE { "open" }

Range2(s) == { s[k] : k \in DOMAIN s }

\* lines 231-233 without log.Fatalf: a failed write is skipped
afterWriteMut(outcome) == "write"

\* lines 231-233: log.Fatalf ends the process when writeJSON failed
afterWrite(outcome) == IF outcome = "ok" THEN "write" ELSE "fatal"

\* lines 228-235: one iteration, the map is ranged over in any order
WriteProvider ==
    /\ pc = "write"
    /\ \E provider \in DOMAIN providerIcons \ Range2(written) :
        \E outcome \in WriteOutcomes(providerDir(provider)) :
            /\ files' = IF outcome = "open" THEN files
                        ELSE [ f \in DOMAIN files \cup { providerPath(provider) } |->
                                 IF f = providerPath(provider)
                                 THEN (IF outcome = "ok" THEN "complete" ELSE "partial")
                                 ELSE files[f] ]
            /\ pc' = afterWrite(outcome)
            /\ IF pc' = "fatal"
               THEN fatalMsg' = "write" /\ UNCHANGED written
               ELSE written' = Append(written, provider) /\ UNCHANGED fatalMsg
    /\ UNCHANGED << configVars, llmServiceAvailable, categories, categoryCount,
                    pendingIcons, allIcons, providerIcons, i, page, requests, lastBatch, dirs, fnVars >>

\* lines 237-244
WriteRag ==
    /\ pc = "write"
    /\ DOMAIN providerIcons \subseteq Range2(written)
    /\ \E outcome \in WriteOutcomes(filepathDir(filepathClean(ragPath))) :
        /\ files' = IF outcome = "open" THEN files
                    ELSE [ f \in DOMAIN files \cup { ragPath } |->
                             IF f = ragPath
                             THEN (IF outcome = "ok" THEN "complete" ELSE "partial")
                             ELSE files[f] ]
        /\ IF outcome = "ok"
           THEN pc' = "done" /\ UNCHANGED fatalMsg
           ELSE pc' = "fatal" /\ fatalMsg' = "rag"
    /\ UNCHANGED << configVars, llmServiceAvailable, categories, categoryCount,
                    pendingIcons, allIcons, providerIcons, i, page, requests, lastBatch, dirs, written, fnVars >>

Next ==
    \/ CheckLLM
    \/ MkdirOutput
    \/ Visit
    \/ OnHTML
    \/ VisitDone
    \/ BatchStep
    \/ IndividualStep
    \/ EnrichDone
    \/ MkdirCategories
    \/ WriteProvider
    \/ WriteRag

Spec == Init /\ [][Next]_vars

(***************************************************************************)
(* The helpers called directly: generateSlug over bounded titles and       *)
(* verifyIconifyID over every combination of the search service's answers  *)
(***************************************************************************)
IdleGenerate ==
    /\ useLLMEnrichment = FALSE
    /\ useBatchProcessing = TRUE
    /\ batchSize = defaultBatchSize
    /\ testingMode = FALSE
    /\ testLimit = defaultTestLimit
    /\ InitGenerate
    /\ page = << >>

generateVars ==
    << configVars, pc, fatalMsg, llmServiceAvailable, categories, categoryCount,
       pendingIcons, allIcons, providerIcons, i, page, requests,
       lastBatch, dirs, files, written >>

\* ASCII runes of every kind, E with acute (U+00C9) and the Kelvin sign
\* (U+212A), whose lower case is the ASCII k
TitleRunes == Range(Str("eC2 _-!%")) \cup { 201, 8490 }

SlugProviders == { Str("AWS"), Str("Gcp"), Str("my_Co 1"), << 8490 >> \o Str("8S") }

InitSlug ==
    /\ IdleGenerate
    /\ fnProvider \in SlugProviders
    /\ fnTitle \in SeqsUpTo(TitleRunes, MaxTitleLen)
    /\ fnOut = NoCall

\* a call of generateSlug, lines 407-411
SlugCall ==
    /\ fnOut = NoCall
    /\ fnOut' = [ op |-> "generateSlug", ret |-> generateSlug(fnProvider, fnTitle) ]
    /\ UNCHANGED << generateVars, fnProvider, fnTitle >>

NextSlug == SlugCall

SpecSlug == InitSlug /\ [][NextSlug]_vars

\* provider, title and the identifier the fallback of lines 401-404 gives them
VerifyCases ==
    { << Str("AWS"), Str("ec2_instance"), Str("logos:aws-ec2instance") >>,
      << Str("GCP"), Str("Cloud Run"), Str("logos:gcp-cloud-run") >>,
      << Str("k8s"), Str("Pod (v1)"), Str("logos:k8s-pod-v1") >> }

InitVerify ==
    /\ IdleGenerate
    /\ \E case \in VerifyCases : fnProvider = case[1] /\ fnTitle = case[2]
    /\ fnOut = NoCall

\* a call of verifyIconifyID, lines 374-405, as createIconPayload makes it
VerifyCall ==
    /\ fnOut = NoCall
    /\ \E r1 \in SearchResponses(1), r2 \in SearchResponses(2), r3 \in SearchResponses(3) :
        fnOut' = [ op    |-> "verifyIconifyID",
                   resps |-> << r1, r2, r3 >>,
                   ret   |-> verifyIconifyID(fnProvider, fnTitle,
                                             generateSlug(fnProvider, fnTitle),
                                             << r1, r2, r3 >>) ]
    /\ UNCHANGED << generateVars, fnProvider, fnTitle >>

NextVerify == VerifyCall

SpecVerify == InitVerify /\ [][NextVerify]_vars

(***************************************************************************)
(* Properties                                                              *)
(***************************************************************************)
AfterEnrichment == pc \in { "mkdirs", "write", "done" } \/ fatalMsg \in { "write", "rag" }

BatchRequests == SelectSeq(requests, LAMBDA r : r.op = "batch")

EnrichmentRequests == SelectSeq(requests, LAMBDA r : r.op \in { "batch", "classify" })

CeilDiv(n, b) == (n + b - 1) \div b

\* C1: in batch mode the k-th batch request (counting from 0) carries exactly
\* the pending icons at positions k*B .. min((k+1)*B, N)-1, in input order, and
\* once the loop has ended exactly ceil(N/B) batch requests were sent.
C1_BatchSlices ==
    BatchMode =>
        /\ \A k \in DOMAIN BatchRequests :
              LET r  == BatchRequests[k]
                  lo == (k - 1) * batchSize
                  hi == IF k * batchSize < Len(pendingIcons)
                        THEN k * batchSize ELSE Len(pendingIcons)
              IN  /\ r.from = lo
                  /\ r.to = hi
                  /\ lo < hi
                  /\ hi - lo <= batchSize
                  /\ (hi - lo < batchSize => k = CeilDiv(Len(pendingIcons), batchSize))
                  /\ Len(r.icons) = hi - lo
                  /\ \A j \in 1..(hi - lo) :
                        /\ r.icons[j].Title = pendingIcons[lo + j].Title
                        /\ r.icons[j].Provider = pendingIcons[lo + j].Category
                        /\ r.icons[j].DisplayName = pendingIcons[lo + j].DisplayName
        /\ Len(BatchRequests) <= CeilDiv(Len(pendingIcons), batchSize)
        /\ AfterEnrichment =>
              Len(BatchRequests) = CeilDiv(Len(pendingIcons), batchSize)

\* C1 witness: three pending icons were sent in two batches of size two and one
C1_Witness ==
    /\ BatchMode
    /\ pc = "done"
    /\ batchSize = 2
    /\ Len(pendingIcons) = 3
    /\ Len(BatchRequests) = 2
    /\ BatchRequests[2].to - BatchRequests[2].from = 1

\* C2: when the health check failed or enrichment is disabled, no classify or
\* batch request is sent and every record carries the zero-valued enrichment:
\* aliases "[]", tags "[]", empty semanticProfile, technicalIntent, shapeType
\* and colorTheme, isContainer false and iconPosition "center".
C2_NoEnrichmentWhenUnavailable ==
    (pc # "start" /\ ~(useLLMEnrichment /\ llmServiceAvailable)) =>
        /\ EnrichmentRequests = << >>
        /\ \A k \in DOMAIN allIcons :
              /\ allIcons[k].Aliases = Str("[]")
              /\ allIcons[k].Tags = Str("[]")
              /\ allIcons[k].SemanticProfile = << >>
              /\ allIcons[k].TechnicalIntent = << >>
              /\ allIcons[k].ShapeType = << >>
              /\ allIcons[k].ColorTheme = << >>
              /\ allIcons[k].IsContainer = FALSE
              /\ allIcons[k].IconPosition = Str("center")

\* C2 witness: the health check failed and the run finished with two records
C2_Witness ==
    /\ useLLMEnrichment
    /\ useBatchProcessing
    /\ ~llmServiceAvailable
    /\ Len(requests) = 1
    /\ requests[1].op = "health"
    /\ pc = "done"
    /\ Len(allIcons) >= 2

C3_FailedBatchInv ==
    lastBatch.kind \in FailureKinds =>
        /\ Len(lastBatch.returned) = lastBatch.to - lastBatch.from
        /\ \A j \in DOMAIN lastBatch.returned : lastBatch.returned[j] = ZeroEnrichment
        /\ Cardinality({ k \in DOMAIN requests :
                           requests[k].op = "batch"
                           /\ requests[k].from = lastBatch.from }) = 1
        /\ pc = "fatal" => fatalMsg \in { "write", "rag" }
        /\ Len(allIcons) = lastBatch.to

C3_FailedBatchStep ==
    (pc = "enrich" /\ lastBatch.kind \in FailureKinds
        /\ lastBatch.to < Len(pendingIcons)) =>
            /\ pc' = "enrich"
            /\ Len(requests') = Len(requests) + 1
            /\ requests'[Len(requests')].op = "batch"
            /\ requests'[Len(requests')].from = lastBatch.to

\* C3: a transport, status or decode failure of a chunk's request makes
\* batchEnrichIcons return zero-valued results, one per icon of the chunk; the
\* request was sent once, the run goes on, and the next step requests the
\* following chunk.
C3_FailedBatchDegrades == [](C3_FailedBatchInv) /\ [][C3_FailedBatchStep]_vars

\* C3 witness: the first chunk's request failed and later chunks remain
C3_Witness ==
    /\ pc = "enrich"
    /\ lastBatch.kind = "decode"
    /\ lastBatch.from = 0
    /\ lastBatch.to = 2
    /\ Len(pendingIcons) = 3
    /\ Len(allIcons) = 2

FirstHit(resps) ==
    CHOOSE k \in DOMAIN resps :
        /\ resps[k].kind = "json" /\ resps[k].Total > 0 /\ resps[k].Icons # << >>
        /\ \A m \in 1..(k - 1) :
              ~(resps[m].kind = "json" /\ resps[m].Total > 0 /\ resps[m].Icons # << >>)

AnyHit(resps) ==
    \E k \in DOMAIN resps :
        resps[k].kind = "json" /\ resps[k].Total > 0 /\ resps[k].Icons # << >>

ExpectedFallback(provider, title) ==
    (CHOOSE case \in VerifyCases : case[1] = provider /\ case[2] = title)[3]

\* C4: verifyIconifyID sends "provider title", then "title", then the slug; it
\* returns the first icon of the first answer that reports a hit and sends no
\* query after it; it returns logos:<lowercased-provider>-<sanitized-title>
\* exactly when none of the three answers reports a hit.
C4_VerifyOrder ==
    fnOut.op = "verifyIconifyID" =>
        LET queries == << fnProvider \o Str(" ") \o fnTitle, fnTitle,
                          generateSlug(fnProvider, fnTitle) >>
            ret     == fnOut.ret
        IN  /\ Len(ret.sent) \in 1..3
            /\ ret.sent = SubSeq(queries, 1, Len(ret.sent))
            /\ AnyHit(fnOut.resps) =>
                  /\ Len(ret.sent) = FirstHit(fnOut.resps)
                  /\ ret.id = fnOut.resps[FirstHit(fnOut.resps)].Icons[1]
            /\ ~AnyHit(fnOut.resps) =>
                  /\ Len(ret.sent) = 3
                  /\ ret.id = ExpectedFallback(fnProvider, fnTitle)
            /\ ret.synthesized <=> ~AnyHit(fnOut.resps)

\* C4 witness: the first query failed, the second one hit and the third was
\* never sent
C4_Witness ==
    /\ fnOut.op = "verifyIconifyID"
    /\ fnTitle = Str("Cloud Run")
    /\ fnOut.resps[1].kind = "error"
    /\ fnOut.resps[2] = SearchHit(2)
    /\ fnOut.resps[3] = SearchHit(3)
    /\ fnOut.ret.sent = << Str("GCP Cloud Run"), Str("Cloud Run") >>
    /\ fnOut.ret.id = Str("logos:hit-2")

CompleteFiles == { f \in DOMAIN files : files[f] = "complete" }

C5_WriteInv ==
    /\ (fatalMsg = "write" \/ \E f \in DOMAIN files : files[f] = "partial") => pc = "fatal"
    /\ fatalMsg = "write" => ragPath \notin DOMAIN files
    /\ ragPath \in DOMAIN files =>
          \A p \in DOMAIN providerIcons : providerPath(p) \in CompleteFiles

C5_WriteStep ==
    /\ fatalMsg = "write" => files' = files
    /\ \A f \in CompleteFiles : f \in DOMAIN files' /\ files'[f] = "complete"

\* C5: a failed provider-file write ends the run: nothing is written after
\* it, the aggregate file is never written, the aggregate file is written only
\* when every provider file is complete, and complete files stay in place.
C5_WriteFailureAborts == [](C5_WriteInv) /\ [][C5_WriteStep]_vars

\* C5 witness: one provider file was written, the next write failed midway and
\* a third provider was never written
C5_Witness ==
    /\ pc = "fatal"
    /\ fatalMsg = "write"
    /\ Len(written) = 1
    /\ Cardinality(DOMAIN providerIcons) = 3
    /\ Cardinality(CompleteFiles) = 1
    /\ Cardinality(DOMAIN files) = 2
    /\ ragPath \notin DOMAIN files

ZeroEnriched(icon) ==
    /\ icon.SemanticProfile = << >>
    /\ icon.TechnicalIntent = << >>
    /\ icon.ShapeType = << >>
    /\ icon.Aliases = Str("[]")

Ec2Records ==
    { k \in DOMAIN allIcons :
        /\ pendingIcons[k].Title = Str("ec2_instance")
        /\ pendingIcons[k].Category = Str("AWS")
        /\ ZeroEnriched(allIcons[k]) }

\* C6 as stated: title "ec2_instance" of provider "AWS" with zero-valued
\* enrichment gives displayName "Ec2 Instance", slug "aws-ec2-instance",
\* popularity 1.0, provider "Amazon Web Services" and defaultWidth 64.
C6_Original ==
    \A k \in Ec2Records :
        /\ allIcons[k].DisplayName = Str("Ec2 Instance")
        /\ allIcons[k].Slug = Str("aws-ec2-instance")
        /\ allIcons[k].Popularity = 10
        /\ allIcons[k].Provider = Str("Amazon Web Services")
        /\ allIcons[k].DefaultWidth = 64

\* C6 amended: the same record has slug "aws-ec2instance": the underscore is
\* not a space, so the [^a-z0-9-] filter removes it; displayName "Ec2 Instance",
\* popularity 1.0, provider "Amazon Web Services" and defaultWidth 64 are as stated.
C6_Ec2Example ==
    \A k \in Ec2Records :
        /\ allIcons[k].DisplayName = Str("Ec2 Instance")
        /\ allIcons[k].Slug = Str("aws-ec2instance")
        /\ allIcons[k].Popularity = 10
        /\ allIcons[k].Provider = Str("Amazon Web Services")
        /\ allIcons[k].DefaultWidth = 64

\* C6 witness: a record was assembled for ec2_instance with zero enrichment
C6_Witness ==
    /\ Ec2Records # {}
    /\ pc = "done"

\* what line 148 makes of each element's onclick attribute
ExpectedLink(e) ==
    IF e = IconEc2 THEN Str("aws%2Fec2.svg")
    ELSE IF e = IconGcp THEN Str("gcp%2FRun.svg")
    ELSE IF e = IconTechnology THEN Str("technology%2Fmq.svg")
    ELSE IF e = IconNoPercent THEN Str("aws/rds.svg")
    ELSE << >>

ExpectedCategory(e) ==
    IF e = IconEc2 THEN Str("AWS")
    ELSE IF e = IconGcp THEN Str("GCP")
    ELSE Str("TECHNOLOGY")

PendingOfCategory(c) == SelectSeq(pendingIcons, LAMBDA p : p.Category = c)

C7_CollectInv ==
    testingMode =>
        \A c \in categories \cup { p.Category : p \in Range2(pendingIcons) } :
            Len(PendingOfCategory(c)) <= testLimit

C7_CollectStep ==
    (pc = "html" /\ page # << >>) =>
        LET e    == Head(page)
            link == ExpectedLink(e)
            full == testingMode /\ Len(PendingOfCategory(ExpectedCategory(e))) >= testLimit
        IN  IF e.class # Str("icon") \/ link = << >> \/ R("%") \notin Range2(link) \/ full
            THEN pendingIcons' = pendingIcons /\ categories' = categories
            ELSE /\ Len(pendingIcons') = Len(pendingIcons) + 1
                 /\ SubSeq(pendingIcons', 1, Len(pendingIcons)) = pendingIcons
                 /\ pendingIcons'[Len(pendingIcons')].Link = link
                 /\ pendingIcons'[Len(pendingIcons')].Title = e.dataSearch
                 /\ pendingIcons'[Len(pendingIcons')].Category = ExpectedCategory(e)
                 /\ categories' = categories \cup { ExpectedCategory(e) }

\* C7: an icon element whose link is empty or has no '%' adds no pending icon
\* and registers no category; in test mode no category collects more than
\* testLimit pending icons, and an icon is dropped exactly when its category
\* already holds testLimit earlier icons of the page.
C7_Collection == [](C7_CollectInv) /\ [][C7_CollectStep]_vars

\* C7 witness: the cap is reached for AWS and another AWS icon is next
C7_Witness ==
    /\ pc = "html"
    /\ testingMode
    /\ testLimit = 1
    /\ page # << >>
    /\ Head(page) = IconEc2
    /\ Len(PendingOfCategory(Str("AWS"))) = 1
    /\ Len(pendingIcons) = 2

AllowedSlugRunes == Range(Str("abcdefghijklmnopqrstuvwxyz0123456789-"))

ExpectedPrefix(provider) ==
    IF provider = Str("AWS") THEN Str("aws-")
    ELSE IF provider = Str("Gcp") THEN Str("gcp-")
    ELSE IF provider = Str("my_Co 1") THEN Str("my_co 1-")
    ELSE Str("k8s-")

\* C8: the slug starts with the lowercased provider and a hyphen, and what
\* follows contains only lowercase letters, digits and hyphens.
C8_SlugAlphabet ==
    fnOut.op = "generateSlug" =>
        LET prefix == ExpectedPrefix(fnProvider)
            slug   == fnOut.ret
        IN  /\ Len(slug) >= Len(prefix)
            /\ SubSeq(slug, 1, Len(prefix)) = prefix
            /\ \A k \in (Len(prefix) + 1)..Len(slug) : slug[k] \in AllowedSlugRunes

\* C8 witness: a provider and a title with the Kelvin sign, which lower-cases
\* to the ASCII k and stays, E with acute, which lower-cases to a rune the
\* filter removes, and a space
C8_Witness ==
    /\ fnOut.op = "generateSlug"
    /\ fnProvider = << 8490 >> \o Str("8S")
    /\ fnTitle = << 8490, 201, 32 >>
    /\ fnOut.ret = Str("k8s-k-")

Placements(icon) ==
    { << p, k >> \in { << q, m >> \in (DOMAIN providerIcons) \X (1..Len(allIcons)) :
                          m <= Len(providerIcons[q]) } :
        providerIcons[p][k] = icon }

ExpectedEnrichment(j) ==
    IF j <= Len(lastBatch.returned) THEN lastBatch.returned[j] ELSE ZeroEnrichment

\* C9: whatever the service answers, there is one record per pending icon, in
\* input order; the record of the j-th icon of a chunk carries results[j] of
\* the chunk's answer when it exists and the zero-valued enrichment otherwise;
\* each record is in exactly one provider group, the group of its provider,
\* and the groups keep input order.
C9_OneRecordPerIcon ==
    /\ Len(allIcons) <= Len(pendingIcons)
    /\ AfterEnrichment => Len(allIcons) = Len(pendingIcons)
    /\ \A k \in DOMAIN allIcons :
          /\ allIcons[k].ID = k
          /\ allIcons[k].URL = sourceURL \o Str("/") \o pendingIcons[k].Link
          /\ allIcons[k].DisplayName = pendingIcons[k].DisplayName
          /\ Cardinality(Placements(allIcons[k])) = 1
    /\ lastBatch.kind # "none" =>
          \A j \in 1..(lastBatch.to - lastBatch.from) :
              LET icon == allIcons[lastBatch.from + j]
                  e    == ExpectedEnrichment(j)
              IN  /\ icon.TechnicalIntent = e.TechnicalIntent
                  /\ icon.SemanticProfile = e.SemanticProfile
                  /\ icon.ShapeType = e.ShapeType
                  /\ icon.ColorTheme = e.BrandColor
                  /\ icon.IsContainer = e.IsContainer
                  /\ icon.IconPosition = (IF e.IsContainer THEN Str("top-left") ELSE Str("center"))
    /\ \A p \in DOMAIN providerIcons :
          /\ providerIcons[p] # << >>
          /\ \A k \in DOMAIN providerIcons[p] :
                /\ providerIcons[p][k].Provider = p
                /\ providerIcons[p][k] \in Range2(allIcons)
          /\ \A a, b \in DOMAIN providerIcons[p] :
                a < b => providerIcons[p][a].ID < providerIcons[p][b].ID

\* C9 witness: a chunk of two icons of two providers got an answer with a
\* single result, and the run finished
C9_Witness ==
    /\ BatchMode
    /\ pc = "done"
    /\ lastBatch.kind = "ok"
    /\ lastBatch.to - lastBatch.from = 2
    /\ Len(lastBatch.returned) = 1
    /\ Cardinality(DOMAIN providerIcons) = 2
    /\ allIcons[lastBatch.from + 1].IsContainer
    /\ ~allIcons[lastBatch.from + 2].IsContainer

\* C10 as stated: for every collected category code c the provider key of its
\* full provider name is the lowercased c, so every provider file goes into a
\* subdirectory created for a collected category.
C10_ProviderKeyRoundTrip ==
    /\ \A c \in categories : getProviderKey(getFullProviderName(c)) = ToLower(c)
    /\ \A p \in DOMAIN providerIcons :
          providerDir(p) \in { categoryDir(c) : c \in categories }

====
